---- MODULE Spec2Model ----
(***************************************************************************)
(* RouteIQ: the weighted graph (src/src/graph.py), its two searches, the   *)
(* congestion analyzer (src/src/congestion_map.py) and the background      *)
(* weight updater (src/src/cli.py, poll_traffic).                          *)
(*                                                                         *)
(* A Python dict is modelled as a sequence of [key, val] entries in        *)
(* insertion order, a list as a sequence, a tuple as a sequence or record. *)
(* Weights and coordinates are integers: every distance the model draws is *)
(* a whole number (a 3-4-5 triangle), so math.hypot is computed exactly.   *)
(***************************************************************************)
EXTENDS Integers, Sequences, FiniteSets, Bags, TLC

\* ------------------------------------------------------------------ bounds
\* Nodes of the enumerated graphs ("A" < "B" < "C" as Python strings).
Nodes == {"A", "B", "C"}
\* Edge weights of the enumerated graphs: below, and at, the threshold.
Weights == {0, 4, 7}
\* At most this many add_edge calls build an enumerated graph.
MaxEdges == 3

\* float('inf'), the cost of "no path" (graph.py:39, :58); every finite
\* cost of the model is far below it.
Inf == 1000000
\* congestion_map.py:7
CONGESTION_THRESHOLD == 7
\* Positional value of None
None == "None"

\* The items of a list, as a set.
Range(seq) == {seq[i] : i \in 1..Len(seq)}

\* ------------------------------------------------------------ Python dict
DictKeys(d) == {d[i].key : i \in 1..Len(d)}
DictHas(d, k) == \E i \in 1..Len(d) : d[i].key = k
DictIdx(d, k) == CHOOSE i \in 1..Len(d) : d[i].key = k
DictGet(d, k, default) == IF DictHas(d, k) THEN d[DictIdx(d, k)].val ELSE default
\* d[k] = v: an existing key keeps its place, a new key goes last.
DictSet(d, k, v) ==
  IF DictHas(d, k)
  THEN [d EXCEPT ![DictIdx(d, k)] = [key |-> k, val |-> v]]
  ELSE Append(d, [key |-> k, val |-> v])
\* d.setdefault(k, v)
DictSetDefault(d, k, v) == IF DictHas(d, k) THEN d ELSE Append(d, [key |-> k, val |-> v])

\* ------------------------------------------------------------------ state
VARIABLES
  nodes,      \* Graph.nodes: a set
  edges,      \* Graph.edges: dict node -> list of <<neighbor, weight>>
  positions,  \* Graph.positions: dict node -> <<lat, lon>>
  op,         \* <<"idle">>, or the call that has returned and its arguments
  res,        \* what that call returned
  pre,        \* the graph as that call found it
  fg,         \* the foreground thread: the call it is in and that call's locals
  up,         \* the updater thread (poll_traffic): where it is and its locals
  hist        \* history of the run, for stating the claims

vars == <<nodes, edges, positions, op, res, pre, fg, up, hist>>
svars == <<op, res, pre>>
cvars == <<fg, up, hist>>

\* ----------------------------------------------------------- Graph (class)
\* The graph as one value, for the operators below.
Graph == [nodes |-> nodes, edges |-> edges, positions |-> positions]

\* Graph.__init__
GraphInit == [nodes |-> {}, edges |-> <<>>, positions |-> <<>>]

\* Graph.add_node(node, position); position None (falsy) sets nothing.
add_node(G, node, position) ==
  [nodes |-> G.nodes \cup {node},
   edges |-> DictSetDefault(G.edges, node, <<>>),
   positions |-> IF position # None THEN DictSet(G.positions, node, position)
                 ELSE G.positions]

\* Graph.add_edge(from_node, to_node, weight)
add_edge(G, from_node, to_node, weight) ==
  LET e1 == DictSet(G.edges, from_node,
                    Append(DictGet(G.edges, from_node, <<>>), <<to_node, weight>>))
  IN [G EXCEPT !.edges = DictSetDefault(e1, to_node, <<>>)]

\* Number of edges held by the graph.
RECURSIVE EdgeCount(_)
EdgeCount(d) == IF d = <<>> THEN 0 ELSE Len(Head(d).val) + EdgeCount(Tail(d))

\* ------------------------------------------------------- priority queue
\* Python orders the node ids as strings.
NodeRank == [n \in {"A", "B", "C", "D", "E", "F"} |->
               CASE n = "A" -> 1 [] n = "B" -> 2 [] n = "C" -> 3
                 [] n = "D" -> 4 [] n = "E" -> 5 [] n = "F" -> 6]

\* list < list: the first differing item decides, else the shorter is less.
PathLess(p, q) ==
  \/ \E i \in 1..Len(p) :
       /\ i <= Len(q)
       /\ \A j \in 1..(i - 1) : p[j] = q[j]
       /\ NodeRank[p[i]] < NodeRank[q[i]]
  \/ /\ Len(p) < Len(q)
     /\ \A j \in 1..Len(p) : p[j] = q[j]

\* (cost, node, path) < (cost, node, path), the tuples dijkstra queues.
DijkstraLess(a, b) ==
  \/ a.cost < b.cost
  \/ /\ a.cost = b.cost
     /\ \/ NodeRank[a.node] < NodeRank[b.node]
        \/ a.node = b.node /\ PathLess(a.path, b.path)

\* (est_total, cost, node, path) < (...), the tuples a_star queues.
AStarLess(a, b) ==
  \/ a.est < b.est
  \/ a.est = b.est /\ DijkstraLess(a, b)

\* As DijkstraPopIdx, taking the oldest item (queue.pop(0)) for the least.
DijkstraPopFirst(queue) == 1

\* heapq.heappop returns a least item of the heap; which of two equal items
\* is indifferent. The heap is kept as a sequence in push order.
DijkstraPopIdx(queue) ==
  CHOOSE i \in 1..Len(queue) : \A j \in 1..Len(queue) : ~DijkstraLess(queue[j], queue[i])

\* As AStarPopIdx, taking the newest item (queue.pop()) for the least.
AStarPopLast(queue) == Len(queue)

AStarPopIdx(queue) ==
  CHOOSE i \in 1..Len(queue) : \A j \in 1..Len(queue) : ~AStarLess(queue[j], queue[i])

\* As NoPath, with cost 0 for "no path".
NoPathZero == [path |-> <<>>, cost |-> 0]

\* The unreachable result: return [], float('inf')
NoPath == [path |-> <<>>, cost |-> Inf]

RemoveAt(s, i) == SubSeq(s, 1, i - 1) \o SubSeq(s, i + 1, Len(s))

\* As PopStep, without the test `node in visited`.
PopStepRevisits(queue, visited, end, i) ==
  LET e == queue[i]
      rest == RemoveAt(queue, i)
  IN  [status |-> IF e.node = end THEN "found" ELSE "expand",
       queue |-> rest, visited |-> visited \cup {e.node},
       cost |-> e.cost, node |-> e.node, path |-> Append(e.path, e.node)]

\* As PopStep, with path = [node] for path = path + [node].
PopStepPathIsNode(queue, visited, end, i) ==
  LET e == queue[i]
      rest == RemoveAt(queue, i)
  IN  IF e.node \in visited
      THEN [status |-> "skip", queue |-> rest, visited |-> visited,
            cost |-> e.cost, node |-> e.node, path |-> e.path]
      ELSE [status |-> IF e.node = end THEN "found" ELSE "expand",
            queue |-> rest, visited |-> visited \cup {e.node},
            cost |-> e.cost, node |-> e.node, path |-> <<e.node>>]

\* As PopStep, leaving a skipped item in the queue.
PopStepKeepsSkipped(queue, visited, end, i) ==
  LET e == queue[i]
      rest == RemoveAt(queue, i)
  IN  IF e.node \in visited
      THEN [status |-> "skip", queue |-> queue, visited |-> visited,
            cost |-> e.cost, node |-> e.node, path |-> e.path]
      ELSE [status |-> IF e.node = end THEN "found" ELSE "expand",
            queue |-> rest, visited |-> visited \cup {e.node},
            cost |-> e.cost, node |-> e.node, path |-> Append(e.path, e.node)]

\* One turn of the while loop of either search once item i is popped: the
\* item is skipped if its node is visited; else the node is visited and put
\* on the path, and is either the end (found) or to be expanded.
PopStep(queue, visited, end, i) ==
  LET e == queue[i]
      rest == RemoveAt(queue, i)
  IN  IF e.node \in visited
      THEN [status |-> "skip", queue |-> rest, visited |-> visited,
            cost |-> e.cost, node |-> e.node, path |-> e.path]
      ELSE [status |-> IF e.node = end THEN "found" ELSE "expand",
            queue |-> rest, visited |-> visited \cup {e.node},
            cost |-> e.cost, node |-> e.node, path |-> Append(e.path, e.node)]

\* ---------------------------------------------------------------- dijkstra
\* As DijkstraPushes, pushing the edge's weight without the cost so far.
DijkstraPushesNoSum(nbrs, visited, cost, path) ==
  LET keep == SelectSeq(nbrs, LAMBDA x : x[1] \notin visited)
  IN  [k \in 1..Len(keep) |->
         [cost |-> keep[k][2], node |-> keep[k][1], path |-> path]]

\* The for loop of dijkstra over edges.get(node, []): one push per neighbor
\* not yet visited, in list order.
DijkstraPushes(nbrs, visited, cost, path) ==
  LET keep == SelectSeq(nbrs, LAMBDA x : x[1] \notin visited)
  IN  [k \in 1..Len(keep) |->
         [cost |-> cost + keep[k][2], node |-> keep[k][1], path |-> path]]

\* The while loop of dijkstra from a given queue and visited set.
RECURSIVE DijkstraLoop(_, _, _, _)
DijkstraLoop(G, end, queue, visited) ==
  IF queue = <<>> THEN NoPath
  ELSE
    LET p == PopStep(queue, visited, end, DijkstraPopIdx(queue))
    IN  CASE p.status = "skip" -> DijkstraLoop(G, end, p.queue, p.visited)
          [] p.status = "found" -> [path |-> p.path, cost |-> p.cost]
          [] p.status = "expand" ->
               DijkstraLoop(G, end,
                 p.queue \o DijkstraPushes(DictGet(G.edges, p.node, <<>>),
                                           p.visited, p.cost, p.path),
                 p.visited)

\* As dijkstra, queueing the start with itself already on the path.
dijkstraStartOnPath(G, start, end) ==
  DijkstraLoop(G, end, <<[cost |-> 0, node |-> start, path |-> <<start>>]>>, {})

\* Graph.dijkstra(start, end)
dijkstra(G, start, end) ==
  DijkstraLoop(G, end, <<[cost |-> 0, node |-> start, path |-> <<>>]>>, {})

\* ------------------------------------------------------------------ a_star
\* math.hypot on whole-number legs whose hypotenuse is a whole number.
Hypot(dx, dy) == CHOOSE r \in 0..(dx * dx + dy * dy) : r * r = dx * dx + dy * dy

\* Graph.euclidean_heuristic(node1, node2)
euclidean_heuristic(G, node1, node2) ==
  IF DictHas(G.positions, node1) /\ DictHas(G.positions, node2)
  THEN LET pos1 == DictGet(G.positions, node1, None)
           pos2 == DictGet(G.positions, node2, None)
       IN  Hypot(pos1[1] - pos2[1], pos1[2] - pos2[2])
  ELSE 0

\* The for loop of a_star: est = cost + weight + heuristic(neighbor, end).
AStarPushes(G, end, nbrs, visited, cost, path) ==
  LET keep == SelectSeq(nbrs, LAMBDA x : x[1] \notin visited)
  IN  [k \in 1..Len(keep) |->
         [est |-> cost + keep[k][2] + euclidean_heuristic(G, keep[k][1], end),
          cost |-> cost + keep[k][2], node |-> keep[k][1], path |-> path]]

\* The while loop of a_star from a given queue and visited set.
RECURSIVE AStarLoop(_, _, _, _)
AStarLoop(G, end, queue, visited) ==
  IF queue = <<>> THEN NoPath
  ELSE
    LET p == PopStep(queue, visited, end, AStarPopIdx(queue))
    IN  CASE p.status = "skip" -> AStarLoop(G, end, p.queue, p.visited)
          [] p.status = "found" -> [path |-> p.path, cost |-> p.cost]
          [] p.status = "expand" ->
               AStarLoop(G, end,
                 p.queue \o AStarPushes(G, end, DictGet(G.edges, p.node, <<>>),
                                        p.visited, p.cost, p.path),
                 p.visited)

\* Graph.a_star(start, end) with the default heuristic.
a_star(G, start, end) ==
  AStarLoop(G, end,
            <<[est |-> 0 + euclidean_heuristic(G, start, end), cost |-> 0,
               node |-> start, path |-> <<>>]>>,
            {})

\* ------------------------------------------------------------ nearest_node
\* As NearestLoop, with <= for <: a later node at the same distance wins.
RECURSIVE NearestLoopLast(_, _, _, _, _)
NearestLoopLast(ps, lat, lon, min_dist, nearest) ==
  IF ps = <<>> THEN nearest
  ELSE LET dist == Hypot(Head(ps).val[1] - lat, Head(ps).val[2] - lon)
       IN  IF dist <= min_dist
           THEN NearestLoopLast(Tail(ps), lat, lon, dist, Head(ps).key)
           ELSE NearestLoopLast(Tail(ps), lat, lon, min_dist, nearest)

\* The for loop of nearest_node over positions.items(), in dict order.
RECURSIVE NearestLoop(_, _, _, _, _)
NearestLoop(ps, lat, lon, min_dist, nearest) ==
  IF ps = <<>> THEN nearest
  ELSE LET dist == Hypot(Head(ps).val[1] - lat, Head(ps).val[2] - lon)
       IN  IF dist < min_dist
           THEN NearestLoop(Tail(ps), lat, lon, dist, Head(ps).key)
           ELSE NearestLoop(Tail(ps), lat, lon, min_dist, nearest)

\* Graph.nearest_node(lat, lon)
nearest_node(G, lat, lon) == NearestLoop(G.positions, lat, lon, Inf, None)

\* ---------------------------------------------------------- congestion_map
\* As HotspotsOf, with > for >=.
HotspotsOfStrict(from_node, neighbors, threshold) ==
  LET hot == SelectSeq(neighbors, LAMBDA x : x[2] > threshold)
  IN  [k \in 1..Len(hot) |-> <<from_node, hot[k][1], hot[k][2]>>]

\* The inner loop of find_hotspots over one adjacency list.
HotspotsOf(from_node, neighbors, threshold) ==
  LET hot == SelectSeq(neighbors, LAMBDA x : x[2] >= threshold)
  IN  [k \in 1..Len(hot) |-> <<from_node, hot[k][1], hot[k][2]>>]

\* The outer loop of find_hotspots over graph.edges.items(), in dict order,
\* against a given value of the module's threshold.
RECURSIVE HotspotScan(_, _)
HotspotScan(d, threshold) ==
  IF d = <<>> THEN <<>>
  ELSE HotspotsOf(Head(d).key, Head(d).val, threshold) \o HotspotScan(Tail(d), threshold)

\* find_hotspots(graph)
find_hotspots(G) == HotspotScan(G.edges, CONGESTION_THRESHOLD)

\* As RemoveOne, dropping every equal (n, w) of the list (no break) while
\* noting the hotspot once.
RemoveOneNoBreak(st, h) ==
  LET neighbors == DictGet(st.edges, h[1], <<>>)
  IN  IF \A i \in 1..Len(neighbors) : neighbors[i] # <<h[2], h[3]>> THEN st
      ELSE [edges |-> DictSet(st.edges, h[1],
                              SelectSeq(neighbors, LAMBDA x : x # <<h[2], h[3]>>)),
            removed |-> Append(st.removed, h)]

\* The removal loop's body for one hotspot: pop the first (n, w) of the list
\* equal to (to_node, weight) and note it in removed; nothing if none matches.
RemoveOne(st, h) ==
  LET neighbors == DictGet(st.edges, h[1], <<>>)
      hits == {i \in 1..Len(neighbors) : neighbors[i] = <<h[2], h[3]>>}
  IN  IF hits = {} THEN st
      ELSE LET i == CHOOSE k \in hits : \A j \in hits : k <= j
           IN  [edges |-> DictSet(st.edges, h[1], RemoveAt(neighbors, i)),
                removed |-> Append(st.removed, h)]

RECURSIVE RemoveHotspots(_, _)
RemoveHotspots(st, hotspots) ==
  IF hotspots = <<>> THEN st
  ELSE RemoveHotspots(RemoveOne(st, Head(hotspots)), Tail(hotspots))

\* The restoring loop: graph.edges[from_node].append((to_node, weight)).
RECURSIVE RestoreEdges(_, _)
RestoreEdges(d, removed) ==
  IF removed = <<>> THEN d
  ELSE LET h == Head(removed)
       IN  RestoreEdges(DictSet(d, h[1], Append(DictGet(d, h[1], <<>>), <<h[2], h[3]>>)),
                        Tail(removed))

\* The graph suggest_alternate_path searches: the hotspots removed.
ReducedState(G) ==
  RemoveHotspots([edges |-> G.edges, removed |-> <<>>], find_hotspots(G))

\* As suggest_alternate_path, searching before the hotspots are removed.
suggestSearchFirst(G, start, end) ==
  LET st == ReducedState(G)
      found == dijkstra(G, start, end)
  IN  [path |-> found.path, cost |-> found.cost, raised |-> FALSE,
       graph |-> [G EXCEPT !.edges = RestoreEdges(st.edges, st.removed)]]

\* A start that is a list, as in dijkstra([], end): not hashable.
Unhashable == "[]"

\* dijkstra raises TypeError at `node in visited` on the first turn of its
\* loop when start is not hashable.
dijkstraRaises(start) == start = Unhashable

\* suggest_alternate_path(graph, start, end): what it returns and the graph
\* it leaves. The search is called between the removing and the restoring
\* loop with no try/finally: if it raises, the exception leaves the function
\* and the restoring loop is not run.
suggest_alternate_path(G, start, end) ==
  LET st == ReducedState(G)
  IN  IF dijkstraRaises(start)
      THEN [path |-> <<>>, cost |-> Inf, raised |-> TRUE,
            graph |-> [G EXCEPT !.edges = st.edges]]
      ELSE LET found == dijkstra([G EXCEPT !.edges = st.edges], start, end)
           IN  [path |-> found.path, cost |-> found.cost, raised |-> FALSE,
                graph |-> [G EXCEPT !.edges = RestoreEdges(st.edges, st.removed)]]

\* ------------------------------------------------------------- traffic_api
\* The fallback of fetch_traffic_data; coordinates in units of 0.0001 degree.
MockData ==
  << [from |-> "A", to |-> "B", weight |-> 5,  from_pos |-> <<525200, 134050>>, to_pos |-> <<525205, 134060>>],
     [from |-> "B", to |-> "C", weight |-> 3,  from_pos |-> <<525205, 134060>>, to_pos |-> <<525210, 134070>>],
     [from |-> "A", to |-> "C", weight |-> 10, from_pos |-> <<525200, 134050>>, to_pos |-> <<525210, 134070>>],
     [from |-> "B", to |-> "D", weight |-> 8,  from_pos |-> <<525205, 134060>>, to_pos |-> <<525215, 134080>>],
     [from |-> "C", to |-> "D", weight |-> 2,  from_pos |-> <<525210, 134070>>, to_pos |-> <<525215, 134080>>],
     [from |-> "D", to |-> "E", weight |-> 4,  from_pos |-> <<525215, 134080>>, to_pos |-> <<525220, 134090>>],
     [from |-> "E", to |-> "F", weight |-> 6,  from_pos |-> <<525220, 134090>>, to_pos |-> <<525225, 134100>>],
     [from |-> "C", to |-> "F", weight |-> 12, from_pos |-> <<525210, 134070>>, to_pos |-> <<525225, 134100>>],
     [from |-> "A", to |-> "E", weight |-> 15, from_pos |-> <<525200, 134050>>, to_pos |-> <<525220, 134090>>],
     [from |-> "B", to |-> "E", weight |-> 7,  from_pos |-> <<525205, 134060>>, to_pos |-> <<525220, 134090>>] >>

\* build_graph_from_traffic(data), from a graph built so far.
RECURSIVE BuildFrom(_, _)
BuildFrom(G, data) ==
  IF data = <<>> THEN G
  ELSE LET segment == Head(data)
           G1 == add_node(G, segment.from, segment.from_pos)
           G2 == add_node(G1, segment.to, segment.to_pos)
       IN  BuildFrom(add_edge(G2, segment.from, segment.to, segment.weight), Tail(data))

build_graph_from_traffic(data) == BuildFrom(GraphInit, data)

\* ------------------------------------------------------------ poll_traffic
\* The inner loop of poll_traffic run to its end on one list: every item
\* whose neighbor is to_node is replaced by (to_node, weight).
UpdateList(neighbors, to_node, weight) ==
  [i \in 1..Len(neighbors) |->
     IF neighbors[i][1] = to_node THEN <<to_node, weight>> ELSE neighbors[i]]

\* As ApplySegment, adding the edge where the list has no match.
ApplySegmentAdds(d, segment) ==
  IF DictHas(d, segment.from)
  THEN LET neighbors == DictGet(d, segment.from, <<>>)
       IN  IF \E i \in 1..Len(neighbors) : neighbors[i][1] = segment.to
           THEN DictSet(d, segment.from, UpdateList(neighbors, segment.to, segment.weight))
           ELSE DictSet(d, segment.from, Append(neighbors, <<segment.to, segment.weight>>))
  ELSE d

\* The body of the for loop over the segments: nothing for a from_node that
\* is no key of graph.edges.
ApplySegment(d, segment) ==
  IF DictHas(d, segment.from)
  THEN DictSet(d, segment.from,
               UpdateList(DictGet(d, segment.from, <<>>), segment.to, segment.weight))
  ELSE d

\* One cycle of poll_traffic with no other thread running: the segments of
\* the fetched batch in turn.
RECURSIVE poll_cycle(_, _)
poll_cycle(d, data) ==
  IF data = <<>> THEN d ELSE poll_cycle(ApplySegment(d, Head(data)), Tail(data))

\* ----------------------------------------------------------- thread state
\* The foreground thread between calls.
FgIdle ==
  [pc |-> "idle", op |-> None, start |-> None, end |-> None,
   queue |-> <<>>, visited |-> {}, cost |-> 0, node |-> None, path |-> <<>>,
   key |-> None, k |-> 1, i |-> 1, hots |-> <<>>, removed |-> <<>>, j |-> 1,
   result |-> <<>>]

\* The updater thread before its first fetch; "off" where none was started.
UpStart ==
  [pc |-> "fetch", data |-> <<>>, s |-> 1, i |-> 1, cycles |-> 0,
   wrote |-> FALSE, lost |-> FALSE]
UpOff == [UpStart EXCEPT !.pc = "off"]

NoRead == [key |-> None, i |-> 0, pair |-> <<>>]
HistNone == [g0 |-> <<>>, held |-> {}, applied |-> {}, lastRead |-> NoRead, seen |-> <<>>]

\* ------------------------------------------------------------ sequential
\* Positions given to add_node in the enumerated graphs: a 3-4-5 triangle,
\* and the same with "A" left without a position.
FullPos == [n \in Nodes |-> CASE n = "A" -> <<0, 0>> [] n = "B" -> <<3, 0>> [] n = "C" -> <<0, 4>>]
PartPos == [FullPos EXCEPT !["A"] = None]

\* add_node for "A", "B", "C" in turn on a new graph.
WithNodes(pos) ==
  add_node(add_node(add_node(GraphInit, "A", pos["A"]), "B", pos["B"]), "C", pos["C"])

\* The graphs a session starts from: a new Graph(), one whose nodes were
\* added with positions, and the graph main builds from the mock data.
SeedGraphs ==
  {GraphInit, WithNodes(FullPos), WithNodes(PartPos), build_graph_from_traffic(MockData)}

\* The node ids a call is made with: the enumerated ones and every known one.
CallNodes == Nodes \cup DictKeys(edges)

\* a_star is called where every distance it takes is a whole number.
WholeDistances ==
  \A i \in 1..Len(positions), j \in 1..Len(positions) :
    LET dx == positions[i].val[1] - positions[j].val[1]
        dy == positions[i].val[2] - positions[j].val[2]
    IN  \E r \in 0..(dx * dx + dy * dy) : r * r = dx * dx + dy * dy

Idle == op[1] = "idle"

Init ==
  /\ \E G \in SeedGraphs :
       /\ nodes = G.nodes
       /\ edges = G.edges
       /\ positions = G.positions
  /\ op = <<"idle">>
  /\ res = <<>>
  /\ pre = <<>>
  /\ fg = FgIdle
  /\ up = UpOff
  /\ hist = HistNone

\* graph.add_edge(f, t, w)
AddEdge ==
  /\ Idle
  /\ EdgeCount(edges) < MaxEdges
  /\ \E f \in Nodes, t \in Nodes, w \in Weights :
       LET G2 == add_edge(Graph, f, t, w)
       IN  /\ edges' = G2.edges
           /\ nodes' = G2.nodes
           /\ positions' = G2.positions
  /\ UNCHANGED <<op, res, pre>>
  /\ UNCHANGED cvars

\* As Dijkstra, with edges.setdefault(node, []) for edges.get(node, []) on
\* the start node.
DijkstraSetsDefault ==
  /\ Idle
  /\ \E s \in CallNodes, e \in CallNodes :
       /\ op' = <<"dijkstra", s, e>>
       /\ res' = dijkstra(Graph, s, e)
       /\ edges' = DictSetDefault(edges, s, <<>>)
  /\ pre' = Graph
  /\ UNCHANGED <<nodes, positions>>
  /\ UNCHANGED cvars

\* graph.dijkstra(s, e)
Dijkstra ==
  /\ Idle
  /\ \E s \in CallNodes, e \in CallNodes :
       /\ op' = <<"dijkstra", s, e>>
       /\ res' = dijkstra(Graph, s, e)
  /\ pre' = Graph
  /\ UNCHANGED <<nodes, edges, positions>>
  /\ UNCHANGED cvars

\* graph.a_star(s, e)
AStar ==
  /\ Idle
  /\ WholeDistances
  /\ \E s \in CallNodes, e \in CallNodes :
       /\ op' = <<"a_star", s, e>>
       /\ res' = a_star(Graph, s, e)
  /\ pre' = Graph
  /\ UNCHANGED <<nodes, edges, positions>>
  /\ UNCHANGED cvars

\* find_hotspots(graph)
FindHotspots ==
  /\ Idle
  /\ op' = <<"find_hotspots">>
  /\ res' = find_hotspots(Graph)
  /\ pre' = Graph
  /\ UNCHANGED <<nodes, edges, positions>>
  /\ UNCHANGED cvars

\* suggest_alternate_path(graph, s, e), with nothing else running, for
\* node ids as start and end.
SuggestAlternatePath ==
  /\ Idle
  /\ \E s \in CallNodes, e \in CallNodes :
       LET r == suggest_alternate_path(Graph, s, e)
       IN  /\ op' = <<"suggest_alternate_path", s, e>>
           /\ res' = [path |-> r.path, cost |-> r.cost]
           /\ edges' = r.graph.edges
  /\ pre' = Graph
  /\ UNCHANGED <<nodes, positions>>
  /\ UNCHANGED cvars

\* The segments a cycle may fetch in the sequential runs, and the batches:
\* each segment alone, and two segments for one edge.
PollSegments ==
  {[from |-> f, to |-> t, weight |-> w] : f \in {"A", "B", "D"}, t \in {"A", "B"}, w \in {0, 7}}
PollFeeds ==
  {<<a>> : a \in PollSegments} \cup
  {<<[from |-> "A", to |-> "B", weight |-> 7], [from |-> "A", to |-> "B", weight |-> 0]>>}

\* One whole cycle of poll_traffic between two foreground calls.
PollTraffic ==
  /\ Idle
  /\ \E data \in PollFeeds :
       /\ op' = <<"poll_traffic", data>>
       /\ edges' = poll_cycle(edges, data)
  /\ res' = <<>>
  /\ pre' = Graph
  /\ UNCHANGED <<nodes, positions>>
  /\ UNCHANGED cvars

\* The caller takes the result; the graph stays as the call left it.
Return ==
  /\ ~Idle
  /\ op' = <<"idle">>
  /\ res' = <<>>
  /\ pre' = <<>>
  /\ UNCHANGED <<nodes, edges, positions>>
  /\ UNCHANGED cvars

Next ==
  \/ AddEdge
  \/ Dijkstra
  \/ AStar
  \/ FindHotspots
  \/ SuggestAlternatePath
  \/ PollTraffic
  \/ Return

Spec == Init /\ [][Next]_vars

\* ---------------------------------------------------------- construction
\* A graph is built call by call from Graph() and asked for nearest nodes;
\* every edge is added at the congestion threshold.

\* At most this many edges are added while building.
MaxBuildEdges == 2

\* The positions add_node is given and the points nearest_node is asked for;
\* every distance between a point and a position is a whole number, and
\* (3, 0) is as far from (0, 0) as from (6, 0).
BuildPositions == {<<0, 0>>, <<6, 0>>, <<3, 4>>}
QueryPoints == {<<0, 0>>, <<3, 0>>}

InitBuild ==
  /\ nodes = GraphInit.nodes
  /\ edges = GraphInit.edges
  /\ positions = GraphInit.positions
  /\ op = <<"idle">>
  /\ res = <<>>
  /\ pre = <<>>
  /\ fg = FgIdle
  /\ up = UpOff
  /\ hist = HistNone

\* graph.add_node(node) and graph.add_node(node, position)
AddNode ==
  /\ Idle
  /\ \E node \in Nodes, given \in BOOLEAN, p \in BuildPositions :
       LET position == IF given THEN p ELSE None
           G2 == add_node(Graph, node, position)
       IN  /\ nodes' = G2.nodes
           /\ edges' = G2.edges
           /\ positions' = G2.positions
  /\ UNCHANGED <<op, res, pre>>
  /\ UNCHANGED cvars

\* graph.add_edge(f, t, w) while building.
BuildAddEdge ==
  /\ Idle
  /\ EdgeCount(edges) < MaxBuildEdges
  /\ \E f \in Nodes, t \in Nodes :
       LET G2 == add_edge(Graph, f, t, CONGESTION_THRESHOLD)
       IN  /\ nodes' = G2.nodes
           /\ edges' = G2.edges
           /\ positions' = G2.positions
  /\ UNCHANGED <<op, res, pre>>
  /\ UNCHANGED cvars

\* graph.nearest_node(lat, lon)
NearestNode ==
  /\ Idle
  /\ \E q \in QueryPoints :
       /\ op' = <<"nearest_node", q[1], q[2]>>
       /\ res' = nearest_node(Graph, q[1], q[2])
  /\ pre' = Graph
  /\ UNCHANGED <<nodes, edges, positions>>
  /\ UNCHANGED cvars

\* suggest_alternate_path(graph, [], e): the search raises, and the
\* exception reaches the caller.
SuggestSearchRaises ==
  /\ Idle
  /\ \E e \in Nodes :
       LET r == suggest_alternate_path(Graph, Unhashable, e)
       IN  /\ r.raised
           /\ op' = <<"suggest_alternate_path raised", Unhashable, e>>
           /\ res' = <<"TypeError">>
           /\ edges' = r.graph.edges
  /\ pre' = Graph
  /\ UNCHANGED <<nodes, positions>>
  /\ UNCHANGED cvars

NextBuild ==
  \/ AddNode
  \/ BuildAddEdge
  \/ NearestNode
  \/ SuggestSearchRaises
  \/ Return

SpecBuild == InitBuild /\ [][NextBuild]_vars

\* ------------------------------------------------------------ concurrent
\* The updater thread and one foreground call share the graph; a step is one
\* access to a shared list (an item read, an item write, a pop, an append)
\* with the thread-local work around it. No lock is taken anywhere in the
\* code, so any step of one thread may fall between two steps of the other.

\* At most this many polling cycles are followed.
MaxCycles == 2

\* The graph of the concurrent runs: "A" has a hotspot edge to "B", an edge
\* to "C" and a second, parallel edge to "B".
ConcGraph ==
  add_edge(add_edge(add_edge(add_edge(WithNodes(FullPos),
    "A", "B", 7), "A", "C", 4), "A", "B", 4), "B", "C", 4)

\* A second one: "A" has a zero-weight self-loop and a cycle through "B";
\* "C" is in no edge.
LoopGraph ==
  add_edge(add_edge(add_edge(WithNodes(FullPos), "A", "A", 0), "A", "B", 4), "B", "A", 0)

ConcGraphs == {ConcGraph, LoopGraph}

\* The segments a fetch may bring, and the batches it brings them in.
FeedSegments ==
  { [from |-> "A", to |-> "B", weight |-> 4],
    [from |-> "A", to |-> "C", weight |-> 7],
    [from |-> "D", to |-> "A", weight |-> 4] }
Feeds == {<<a>> : a \in FeedSegments} \cup
         {<<[from |-> "A", to |-> "B", weight |-> 4], [from |-> "A", to |-> "C", weight |-> 7]>>}

\* The list the dict holds for key, or [] for no key (None).
ListOf(key) == IF key = None THEN <<>> ELSE DictGet(edges, key, <<>>)

\* Every <<key, i, pair>> the adjacency lists hold.
Entries(d) ==
  UNION {{<<d[x].key, i, d[x].val[i]>> : i \in 1..Len(d[x].val)} : x \in 1..Len(d)}

InitConc ==
  /\ \E G \in ConcGraphs :
       /\ nodes = G.nodes
       /\ edges = G.edges
       /\ positions = G.positions
  /\ op = <<"idle">>
  /\ res = <<>>
  /\ pre = <<>>
  /\ fg = FgIdle
  /\ up = UpStart
  /\ hist = [HistNone EXCEPT !.g0 = edges]

\* The first queue item of a search: (0, start, []) for dijkstra,
\* (0 + heuristic(start, end), 0, start, []) for a_star.
FirstItem(o, start, end) ==
  IF o = "a_star"
  THEN [est |-> 0 + euclidean_heuristic(Graph, start, end), cost |-> 0,
        node |-> start, path |-> <<>>]
  ELSE [cost |-> 0, node |-> start, path |-> <<>>]

\* The foreground thread enters a search.
FgStartSearch ==
  /\ fg.pc = "idle"
  /\ \E o \in {"dijkstra", "a_star"}, s \in Nodes, e \in Nodes :
       fg' = [FgIdle EXCEPT !.pc = "pop", !.op = o, !.start = s, !.end = e,
                            !.queue = <<FirstItem(o, s, e)>>]
  /\ hist' = [hist EXCEPT !.g0 = edges, !.held = Entries(edges)]
  /\ UNCHANGED <<nodes, edges, positions, up, svars>>

\* The foreground thread enters find_hotspots(graph).
FgStartHotspots ==
  /\ fg.pc = "idle"
  /\ fg' = [FgIdle EXCEPT !.pc = "scan", !.op = "find_hotspots"]
  /\ hist' = [hist EXCEPT !.g0 = edges, !.held = Entries(edges)]
  /\ UNCHANGED <<nodes, edges, positions, up, svars>>

\* The foreground thread enters suggest_alternate_path(graph, s, e), which
\* first calls find_hotspots.
FgStartSuggest ==
  /\ fg.pc = "idle"
  /\ \E s \in Nodes, e \in Nodes :
       fg' = [FgIdle EXCEPT !.pc = "scan", !.op = "suggest_alternate_path",
                            !.start = s, !.end = e]
  /\ hist' = [hist EXCEPT !.g0 = edges, !.held = Entries(edges)]
  /\ UNCHANGED <<nodes, edges, positions, up, svars>>

\* As FgScan, stepping over the item after each one it reads.
FgScanSkips ==
  /\ fg.pc = "scan"
  /\ IF fg.k > Len(edges)
     THEN fg' = IF fg.op = "find_hotspots"
                THEN [fg EXCEPT !.pc = "done", !.result = fg.hots]
                ELSE [fg EXCEPT !.pc = "remove", !.j = 1, !.i = 1]
     ELSE LET neighbors == edges[fg.k].val
          IN  IF fg.i > Len(neighbors)
              THEN fg' = [fg EXCEPT !.k = @ + 1, !.i = 1]
              ELSE fg' = [fg EXCEPT !.i = @ + 2,
                            !.hots = @ \o HotspotsOf(edges[fg.k].key, <<neighbors[fg.i]>>,
                                                     CONGESTION_THRESHOLD)]
  /\ hist' = IF fg.k <= Len(edges) /\ fg.i <= Len(edges[fg.k].val)
             THEN [hist EXCEPT !.seen = Append(@, <<edges[fg.k].key, fg.i, edges[fg.k].val[fg.i]>>)]
             ELSE hist
  /\ UNCHANGED <<nodes, edges, positions, up, svars>>

\* find_hotspots: one step of its two loops. The next item of the current
\* list is read and kept if its weight is >= the threshold; at the end of a
\* list the next dict entry is taken; at the end of the dict the list of
\* hotspots is returned (to the caller, or to suggest_alternate_path).
FgScan ==
  /\ fg.pc = "scan"
  /\ IF fg.k > Len(edges)
     THEN fg' = IF fg.op = "find_hotspots"
                THEN [fg EXCEPT !.pc = "done", !.result = fg.hots]
                ELSE [fg EXCEPT !.pc = "remove", !.j = 1, !.i = 1]
     ELSE LET neighbors == edges[fg.k].val
          IN  IF fg.i > Len(neighbors)
              THEN fg' = [fg EXCEPT !.k = @ + 1, !.i = 1]
              ELSE fg' = [fg EXCEPT !.i = @ + 1,
                            !.hots = @ \o HotspotsOf(edges[fg.k].key, <<neighbors[fg.i]>>,
                                                     CONGESTION_THRESHOLD)]
  /\ hist' = IF fg.k <= Len(edges) /\ fg.i <= Len(edges[fg.k].val)
             THEN [hist EXCEPT !.seen = Append(@, <<edges[fg.k].key, fg.i, edges[fg.k].val[fg.i]>>)]
             ELSE hist
  /\ UNCHANGED <<nodes, edges, positions, up, svars>>

\* suggest_alternate_path, the removal loop: the next item of the hotspot's
\* list is read and compared with (to_node, weight); a match is noted in
\* removed, and its pop is the next step. With the hotspots done, the
\* search starts.
FgRemove ==
  /\ fg.pc = "remove"
  /\ IF fg.j > Len(fg.hots)
     THEN fg' = [fg EXCEPT !.pc = "pop",
                   !.queue = <<FirstItem("dijkstra", fg.start, fg.end)>>]
     ELSE LET h == fg.hots[fg.j]
              neighbors == ListOf(h[1])
          IN  IF fg.i > Len(neighbors)
              THEN fg' = [fg EXCEPT !.j = @ + 1, !.i = 1]
              ELSE IF neighbors[fg.i] = <<h[2], h[3]>>
                   THEN fg' = [fg EXCEPT !.pc = "pop_edge", !.removed = Append(@, h)]
                   ELSE fg' = [fg EXCEPT !.i = @ + 1]
  /\ UNCHANGED <<nodes, edges, positions, up, hist, svars>>

\* neighbors.pop(i), then break: whatever the list holds at i by now goes.
FgPopEdge ==
  /\ fg.pc = "pop_edge"
  /\ LET h == fg.hots[fg.j]
         neighbors == ListOf(h[1])
     IN  IF fg.i <= Len(neighbors)
         THEN /\ edges' = DictSet(edges, h[1], RemoveAt(neighbors, fg.i))
              /\ fg' = [fg EXCEPT !.pc = "remove", !.j = @ + 1, !.i = 1]
         ELSE /\ edges' = edges
              /\ fg' = [fg EXCEPT !.pc = "raised"]
  /\ UNCHANGED <<nodes, positions, up, hist, svars>>

\* What a search hands back: to the caller, or to suggest_alternate_path,
\* which goes on to restore.
SearchReturns(r) ==
  IF fg.op = "suggest_alternate_path"
  THEN [fg EXCEPT !.pc = "restore", !.result = r, !.j = 1]
  ELSE [fg EXCEPT !.pc = "done", !.result = r]

\* dijkstra / a_star: one turn of the while loop up to the for loop, which
\* takes the node's list (edges.get(node, [])).
FgPop ==
  /\ fg.pc = "pop"
  /\ IF fg.queue = <<>> THEN fg' = SearchReturns(NoPath)
     ELSE LET p == PopStep(fg.queue, fg.visited, fg.end,
                           IF fg.op = "a_star" THEN AStarPopIdx(fg.queue)
                           ELSE DijkstraPopIdx(fg.queue))
          IN  CASE p.status = "skip" -> fg' = [fg EXCEPT !.queue = p.queue]
                [] p.status = "found" ->
                     fg' = SearchReturns([path |-> p.path, cost |-> p.cost])
                [] p.status = "expand" ->
                     fg' = [fg EXCEPT !.pc = "expand", !.queue = p.queue,
                              !.visited = p.visited, !.cost = p.cost, !.node = p.node,
                              !.path = p.path, !.i = 1,
                              !.key = IF DictHas(edges, p.node) THEN p.node ELSE None]
  /\ UNCHANGED <<nodes, edges, positions, up, hist, svars>>

\* dijkstra / a_star: one step of the for loop. The next (neighbor, weight)
\* of the list is read and pushed if the neighbor is not visited.
FgExpand ==
  /\ fg.pc = "expand"
  /\ LET neighbors == ListOf(fg.key)
     IN  IF fg.i > Len(neighbors)
         THEN /\ fg' = [fg EXCEPT !.pc = "pop"]
              /\ hist' = hist
         ELSE /\ fg' = [fg EXCEPT !.i = @ + 1,
                          !.queue = @ \o
                            (IF fg.op = "a_star"
                             THEN AStarPushes(Graph, fg.end, <<neighbors[fg.i]>>,
                                              fg.visited, fg.cost, fg.path)
                             ELSE DijkstraPushes(<<neighbors[fg.i]>>, fg.visited,
                                                 fg.cost, fg.path))]
              /\ hist' = [hist EXCEPT !.lastRead =
                            [key |-> fg.key, i |-> fg.i, pair |-> neighbors[fg.i]]]
  /\ UNCHANGED <<nodes, edges, positions, up, svars>>

\* suggest_alternate_path, the restoring loop: one append per removed edge,
\* then return path, cost.
FgRestore ==
  /\ fg.pc = "restore"
  /\ IF fg.j > Len(fg.removed)
     THEN /\ fg' = [fg EXCEPT !.pc = "done"]
          /\ edges' = edges
     ELSE LET h == fg.removed[fg.j]
          IN  /\ edges' = DictSet(edges, h[1], Append(ListOf(h[1]), <<h[2], h[3]>>))
              /\ fg' = [fg EXCEPT !.j = @ + 1]
  /\ UNCHANGED <<nodes, positions, up, hist, svars>>

\* The hotspot edges suggest_alternate_path holds out of the graph.
HeldOut ==
  CASE fg.pc \in {"remove", "pop", "expand"} -> Range(fg.removed)
    [] fg.pc = "pop_edge" -> Range(SubSeq(fg.removed, 1, Len(fg.removed) - 1))
    [] fg.pc = "restore" -> Range(SubSeq(fg.removed, fg.j, Len(fg.removed)))
    [] OTHER -> {}

\* poll_traffic: data = fetch_traffic_data(...)
UpFetch ==
  /\ up.pc = "fetch"
  /\ up.cycles < MaxCycles
  /\ \E data \in Feeds :
       up' = [up EXCEPT !.pc = "segment", !.data = data, !.s = 1, !.cycles = @ + 1]
  /\ UNCHANGED <<nodes, edges, positions, fg, hist, svars>>

\* poll_traffic: the next segment of the batch, taken up if its from-node
\* is a key of graph.edges; after the last, time.sleep and the next cycle.
UpSegment ==
  /\ up.pc = "segment"
  /\ IF up.s > Len(up.data)
     THEN up' = [up EXCEPT !.pc = "fetch", !.data = <<>>, !.s = 1, !.i = 1, !.wrote = FALSE]
     ELSE IF DictHas(edges, up.data[up.s].from)
          THEN up' = [up EXCEPT !.pc = "read", !.i = 1, !.wrote = FALSE]
          ELSE up' = [up EXCEPT !.s = @ + 1]
  /\ UNCHANGED <<nodes, edges, positions, fg, hist, svars>>

\* As UpRead, without the test neighbor == to_node: every item is written.
UpReadNoTest ==
  /\ up.pc = "read"
  /\ LET segment == up.data[up.s]
         neighbors == ListOf(segment.from)
     IN  IF up.i > Len(neighbors)
         THEN up' = [up EXCEPT !.pc = "segment", !.s = @ + 1, !.lost = FALSE]
         ELSE up' = [up EXCEPT !.pc = "write"]
  /\ UNCHANGED <<nodes, edges, positions, fg, hist, svars>>

\* poll_traffic: the inner loop reads the next item of the list and compares
\* its neighbor with to_node; the write is the next step.
UpRead ==
  /\ up.pc = "read"
  /\ LET segment == up.data[up.s]
         neighbors == ListOf(segment.from)
     IN  IF up.i > Len(neighbors)
         THEN up' = [up EXCEPT !.pc = "segment", !.s = @ + 1,
                       !.lost = ~up.wrote /\ \E h \in HeldOut :
                                  h[1] = segment.from /\ h[2] = segment.to]
         ELSE IF neighbors[up.i][1] = segment.to
              THEN up' = [up EXCEPT !.pc = "write"]
              ELSE up' = [up EXCEPT !.i = @ + 1]
  /\ UNCHANGED <<nodes, edges, positions, fg, hist, svars>>

\* poll_traffic: graph.edges[from_node][i] = (to_node, weight); an index the
\* list no longer has raises IndexError, which ends the thread.
UpWrite ==
  /\ up.pc = "write"
  /\ LET segment == up.data[up.s]
         neighbors == ListOf(segment.from)
         pair == <<segment.to, segment.weight>>
     IN  IF up.i <= Len(neighbors)
         THEN /\ edges' = DictSet(edges, segment.from, [neighbors EXCEPT ![up.i] = pair])
              /\ up' = [up EXCEPT !.pc = "read", !.i = @ + 1, !.wrote = TRUE]
              /\ hist' = [hist EXCEPT
                            !.applied = @ \cup {<<segment.from, segment.to, segment.weight>>},
                            !.held = IF fg.pc \in {"idle", "done"} THEN @
                                     ELSE @ \cup {<<segment.from, up.i, pair>>}]
         ELSE /\ edges' = edges
              /\ up' = [up EXCEPT !.pc = "dead"]
              /\ hist' = hist
  /\ UNCHANGED <<nodes, positions, fg, svars>>

NextConc ==
  \/ FgStartSearch
  \/ FgStartHotspots
  \/ FgStartSuggest
  \/ FgScan
  \/ FgRemove
  \/ FgPopEdge
  \/ FgPop
  \/ FgExpand
  \/ FgRestore
  \/ UpFetch
  \/ UpSegment
  \/ UpRead
  \/ UpWrite

SpecConc == InitConc /\ [][NextConc]_vars

\* The foreground thread is never starved: the interpreter hands the lock
\* from thread to thread, so a search that can take a step takes it.
SpecConcFair == SpecConc /\ WF_vars(FgPop) /\ WF_vars(FgExpand)

\* ------------------------------------------------- what the claims speak of
\* Bounds of the thresholds the hotspot claim ranges over.
MaxThreshold == 16

BagOfSeq(seq) == [x \in Range(seq) |-> Cardinality({i \in 1..Len(seq) : seq[i] = x})]
Min(S) == CHOOSE x \in S : \A y \in S : x <= y

\* Every edge of the graph as a (from, to, weight) triple, in dict order.
RECURSIVE AllEdges(_)
AllEdges(d) ==
  IF d = <<>> THEN <<>>
  ELSE [k \in 1..Len(Head(d).val) |-> <<Head(d).key, Head(d).val[k][1], Head(d).val[k][2]>>]
       \o AllEdges(Tail(d))

\* The graph's edges as a bag of triples.
EdgeBag(d) == BagOfSeq(AllEdges(d))

\* The least cost of a directed walk, by Bellman-Ford relaxation: Inf if none.
Relax(E, V, dist) ==
  [v \in V |-> Min({dist[v]} \cup {dist[t[1]] + t[3] : t \in {x \in E : x[2] = v /\ dist[x[1]] < Inf}})]

RECURSIVE Relaxed(_, _, _, _)
Relaxed(E, V, dist, k) == IF k = 0 THEN dist ELSE Relaxed(E, V, Relax(E, V, dist), k - 1)

MinCostOver(E, start, end) ==
  LET V == {t[1] : t \in E} \cup {t[2] : t \in E} \cup {start, end}
  IN  Relaxed(E, V, [v \in V |-> IF v = start THEN 0 ELSE Inf], Cardinality(V))[end]

MinCost(d, start, end) == MinCostOver(Range(AllEdges(d)), start, end)

\* The edges below the threshold, and the least cost over them alone.
ColdEdges(d) == {t \in Range(AllEdges(d)) : t[3] < CONGESTION_THRESHOLD}
MinColdCost(d, start, end) == MinCostOver(ColdEdges(d), start, end)

\* path runs from start to end over edges of E, and cost is what the cheapest
\* edge of each hop adds up to.
RECURSIVE HopSum(_, _, _)
HopSum(E, path, i) ==
  IF i >= Len(path) THEN 0
  ELSE Min({t[3] : t \in {x \in E : x[1] = path[i] /\ x[2] = path[i + 1]}}) + HopSum(E, path, i + 1)

IsPathOver(E, path, start, end) ==
  /\ path # <<>>
  /\ path[1] = start
  /\ path[Len(path)] = end
  /\ \A i \in 1..(Len(path) - 1) : \E t \in E : t[1] = path[i] /\ t[2] = path[i + 1]

MockGraph == build_graph_from_traffic(MockData)
IsSearch == op[1] \in {"dijkstra", "a_star"}

\* ------------------------------------------------------------------ claims
\* C1: on every graph and every (start, end) with end reachable, dijkstra
\* returns the least sum of edge weights over all directed start-to-end
\* paths.
C1_DijkstraMinimal ==
  op[1] = "dijkstra" =>
    (MinCost(pre.edges, op[2], op[3]) < Inf => res.cost = MinCost(pre.edges, op[2], op[3]))

\* A two-hop path returned although a dearer direct edge exists.
C1_Witness ==
  /\ op[1] = "dijkstra"
  /\ Len(res.path) = 3
  /\ \E t \in Range(AllEdges(pre.edges)) : t[1] = op[2] /\ t[2] = op[3] /\ t[3] > res.cost

\* C2 (as claimed): for every graph, every assignment of positions and every
\* reachable (start, end), a_star with the Euclidean heuristic returns the
\* cost dijkstra returns.
C2_AStarCostIsDijkstraCost ==
  (op[1] = "a_star" /\ MinCost(pre.edges, op[2], op[3]) < Inf)
    => res.cost = dijkstra(pre, op[2], op[3]).cost

\* C3: when end is not reachable from start (start # end, either possibly
\* unknown to the graph), dijkstra and a_star return ([], +infinity).
C3_UnreachableIsNoPath ==
  (IsSearch /\ op[2] # op[3] /\ MinCost(pre.edges, op[2], op[3]) = Inf)
    => res = [path |-> <<>>, cost |-> Inf]

\* a_star from a node the graph does not know, on a graph that has edges.
C3_Witness ==
  /\ op[1] = "a_star"
  /\ op[2] # op[3]
  /\ ~DictHas(pre.edges, op[2])
  /\ EdgeCount(pre.edges) > 0
  /\ res.path = <<>>

\* C4: dijkstra(x, x) and a_star(x, x) return ([x], 0) for every node x,
\* with or without outgoing edges or self-loops, known to the graph or not.
C4_StartIsEnd ==
  (IsSearch /\ op[2] = op[3]) => res = [path |-> <<op[2]>>, cost |-> 0]

\* a_star(x, x) on a node that has a self-loop and another outgoing edge.
C4_Witness ==
  /\ op[1] = "a_star"
  /\ op[2] = op[3]
  /\ \E t \in Range(AllEdges(pre.edges)) : t[1] = op[2] /\ t[2] = op[2]
  /\ \E t \in Range(AllEdges(pre.edges)) : t[1] = op[2] /\ t[2] # op[2]

\* C5: with nothing else running, suggest_alternate_path leaves the bag of
\* (from, to, weight) triples as it found it, path or no path.
C5_SuggestKeepsEdgeBag ==
  op[1] = "suggest_alternate_path" => EdgeBag(edges) = EdgeBag(pre.edges)

\* Two parallel hotspot edges of one weight were removed and no path found.
C5_Witness ==
  /\ op[1] = "suggest_alternate_path"
  /\ \E i, j \in 1..Len(AllEdges(pre.edges)) :
       /\ i # j
       /\ AllEdges(pre.edges)[i] = AllEdges(pre.edges)[j]
       /\ AllEdges(pre.edges)[i][3] >= CONGESTION_THRESHOLD
  /\ res.path = <<>>

\* C6: find_hotspots returns exactly the edges of weight >= threshold, each
\* parallel edge once; a higher threshold gives a sub-bag of what a lower one
\* gives; on the mock graph with threshold 7 it gives the five named edges.
C6_Hotspots ==
  op[1] = "find_hotspots" =>
    /\ BagOfSeq(res) =
         BagOfSeq(SelectSeq(AllEdges(pre.edges), LAMBDA t : t[3] >= CONGESTION_THRESHOLD))
    /\ \A t1 \in 0..MaxThreshold, t2 \in 0..MaxThreshold :
         t1 <= t2 =>
           BagOfSeq(HotspotScan(pre.edges, t2)) \sqsubseteq BagOfSeq(HotspotScan(pre.edges, t1))
    /\ pre = MockGraph =>
         /\ Len(res) = 5
         /\ Range(res) = {<<"A", "C", 10>>, <<"B", "D", 8>>, <<"C", "F", 12>>,
                          <<"A", "E", 15>>, <<"B", "E", 7>>}

\* find_hotspots has run on the mock graph.
C6_Witness ==
  /\ op[1] = "find_hotspots"
  /\ pre = MockGraph
  /\ Len(res) = 5

\* C7: suggest_alternate_path returns a least-cost path of the graph without
\* its edges of weight >= threshold: a path over the remaining edges, at a
\* cost no less than dijkstra's on the whole graph and greater when every
\* cheapest path uses a hotspot and a detour exists; ([], +infinity), with no
\* unrestricted search, when no hotspot-free path exists.
C7_SuggestIsMinimalOffHotspots ==
  op[1] = "suggest_alternate_path" =>
    LET cold == MinColdCost(pre.edges, op[2], op[3])
        whole == dijkstra(pre, op[2], op[3]).cost
    IN  /\ res.cost = cold
        /\ res.cost >= whole
        /\ cold = Inf => res = [path |-> <<>>, cost |-> Inf]
        /\ cold < Inf =>
             /\ IsPathOver(ColdEdges(pre.edges), res.path, op[2], op[3])
             /\ HopSum(ColdEdges(pre.edges), res.path, 1) = res.cost
        /\ (cold < Inf /\ MinCost(pre.edges, op[2], op[3]) < cold) => res.cost > whole

\* A detour dearer than the hotspot route was returned.
C7_Witness ==
  /\ op[1] = "suggest_alternate_path"
  /\ res.cost < Inf
  /\ res.cost > dijkstra(pre, op[2], op[3]).cost

\* C8: on the mock graph dijkstra(A, D) returns [A, B, C, D] at cost 10, and
\* so does suggest_alternate_path(A, D) with threshold 7.
C8_MockScenario ==
  (/\ op[1] \in {"dijkstra", "suggest_alternate_path"}
   /\ pre = MockGraph
   /\ op[2] = "A"
   /\ op[3] = "D")
    => res = [path |-> <<"A", "B", "C", "D">>, cost |-> 10]

\* suggest_alternate_path(A, D) has returned on the mock graph.
C8_Witness ==
  /\ op[1] = "suggest_alternate_path"
  /\ pre = MockGraph
  /\ op[2] = "A"
  /\ op[3] = "D"
  /\ res.cost = 10

\* C9: under any interleaving of the updater's writes with a running dijkstra
\* or a_star, a (neighbor, weight) pair the search reads from a list was in
\* that list, at that place, at some moment of the search; its neighbor is
\* the edge's own and its weight is the edge's own when the search began or
\* one a segment for that edge brought.
C9_SearchReadsWholePairs ==
  (fg.op \in {"dijkstra", "a_star"} /\ hist.lastRead # NoRead) =>
    LET r == hist.lastRead
        first == DictGet(hist.g0, r.key, <<>>)[r.i]
    IN  /\ <<r.key, r.i, r.pair>> \in hist.held
        /\ r.pair[1] = first[1]
        /\ \/ r.pair[2] = first[2]
           \/ <<r.key, r.pair[1], r.pair[2]>> \in hist.applied

\* A search has read a pair from a place that held another pair earlier in
\* the same search: the updater wrote there while the search ran.
C9_Witness ==
  /\ fg.op \in {"dijkstra", "a_star"}
  /\ hist.lastRead # NoRead
  /\ \E h \in hist.held :
       /\ h[1] = hist.lastRead.key
       /\ h[2] = hist.lastRead.i
       /\ h[3] # hist.lastRead.pair
  /\ \E t \in hist.applied : t = <<hist.lastRead.key, hist.lastRead.pair[1], hist.lastRead.pair[2]>>

\* C10 (as claimed): a segment for an edge that suggest_alternate_path holds
\* out of the graph is never passed over by the updater without a write.
C10_UpdateNotDropped == ~up.lost

\* The graph's edges as a bag of (from, to) endpoint pairs.
EndpointBag(d) == BagOfSeq([k \in 1..Len(AllEdges(d)) |-> <<AllEdges(d)[k][1], AllEdges(d)[k][2]>>])

\* C11 (as claimed): whatever the updater does meanwhile, once
\* suggest_alternate_path has returned, the graph holds the bag of (from, to)
\* pairs it held when the call began.
C11_SuggestKeepsEndpoints ==
  (fg.op = "suggest_alternate_path" /\ fg.pc = "done")
    => EndpointBag(edges) = EndpointBag(hist.g0)

\* The segments of data for the edge (from_node, to_node).
SegmentsFor(data, from_node, to_node) ==
  SelectSeq(data, LAMBDA g : g.from = from_node /\ g.to = to_node)

\* C12: a cycle of the updater with no foreground mutation leaves the node
\* set, the positions, the keys of graph.edges and the neighbors of every
\* list as they were; a weight differs only on an edge some segment names,
\* and is then the last such segment's; a segment with an unknown from-node
\* or no matching edge changes nothing.
C12_CycleKeepsTopology ==
  op[1] = "poll_traffic" =>
    /\ nodes = pre.nodes
    /\ positions = pre.positions
    /\ Len(edges) = Len(pre.edges)
    /\ \A k \in 1..Len(edges) :
         /\ edges[k].key = pre.edges[k].key
         /\ Len(edges[k].val) = Len(pre.edges[k].val)
         /\ \A i \in 1..Len(edges[k].val) :
              LET old == pre.edges[k].val[i]
                  new == edges[k].val[i]
                  segs == SegmentsFor(op[2], edges[k].key, old[1])
              IN  /\ new[1] = old[1]
                  /\ new[2] = IF segs = <<>> THEN old[2] ELSE segs[Len(segs)].weight

\* A cycle whose segment names a known from-node with no edge to its
\* to-node, on a graph that has edges.
C12_Witness ==
  /\ op[1] = "poll_traffic"
  /\ Len(op[2]) = 1
  /\ DictHas(pre.edges, op[2][1].from)
  /\ EdgeCount(pre.edges) > 0
  /\ \A t \in Range(AllEdges(pre.edges)) : ~(t[1] = op[2][1].from /\ t[2] = op[2][1].to)
  /\ edges = pre.edges

\* C13 (as claimed): of several parallel edges with one (from, to), an
\* update for (from, to) changes the first in insertion order only.
C13_OnlyFirstMatchUpdated ==
  (op[1] = "poll_traffic" /\ Len(op[2]) = 1) =>
    \A k \in 1..Len(edges) : \A i \in 1..Len(edges[k].val) :
      (\E j \in 1..(i - 1) :
          /\ pre.edges[k].key = op[2][1].from
          /\ pre.edges[k].val[j][1] = op[2][1].to)
        => edges[k].val[i] = pre.edges[k].val[i]

\* C14 (as claimed): after any sequence of add_node and add_edge calls every
\* endpoint of every edge is in the node set.
C14_EndpointsAreNodes ==
  \A t \in Range(AllEdges(edges)) : t[1] \in nodes /\ t[2] \in nodes

\* The square of the distance nearest_node takes between a position and a point.
DistSq(pos, lat, lon) == (pos[1] - lat) * (pos[1] - lat) + (pos[2] - lon) * (pos[2] - lon)

\* C19: nearest_node(lat, lon) returns None when no node has a position;
\* else a positioned node at the least distance from (lat, lon), the first
\* such node in the iteration order of the position map.
C19_NearestNode ==
  op[1] = "nearest_node" =>
    IF pre.positions = <<>> THEN res = None
    ELSE /\ DictHas(pre.positions, res)
         /\ LET ps == pre.positions
                r == DictIdx(ps, res)
            IN  /\ \A j \in 1..Len(ps) :
                     DistSq(ps[r].val, op[2], op[3]) <= DistSq(ps[j].val, op[2], op[3])
                /\ \A j \in 1..(r - 1) :
                     DistSq(ps[r].val, op[2], op[3]) < DistSq(ps[j].val, op[2], op[3])

\* Two nodes at different positions are equally near, a third is farther,
\* and the one returned was positioned first though it sorts last.
C19_Witness ==
  /\ op[1] = "nearest_node"
  /\ Len(pre.positions) = 3
  /\ \E j \in 2..3 :
       /\ pre.positions[j].val # pre.positions[1].val
       /\ DistSq(pre.positions[j].val, op[2], op[3]) = DistSq(pre.positions[1].val, op[2], op[3])
  /\ res = pre.positions[1].key
  /\ res = "C"

\* C15 (as claimed): when the search inside suggest_alternate_path raises
\* after the hotspot edges are removed, the graph's bag of edges after the
\* failed call is the bag before it.
C15_RestoredWhenSearchRaises ==
  op[1] = "suggest_alternate_path raised" => EdgeBag(edges) = EdgeBag(pre.edges)

\* Every value the heuristic takes in a_star(start, end) on G is 0.
ZeroHeuristic(G, start, end) ==
  \A n \in DictKeys(G.edges) \cup {start} : euclidean_heuristic(G, n, end) = 0

\* C20: where the heuristic is 0 for every pair a_star evaluates (no node
\* has a position, or the end has none), a_star returns the path and the
\* cost dijkstra returns.
C20_AStarIsDijkstraAtZero ==
  (op[1] = "a_star" /\ ZeroHeuristic(pre, op[2], op[3]))
    => res = dijkstra(pre, op[2], op[3])

\* a_star has returned a two-hop path to an end without a position, on a
\* graph whose other nodes have positions and which has a direct edge too.
C20_Witness ==
  /\ op[1] = "a_star"
  /\ pre.positions # <<>>
  /\ ~DictHas(pre.positions, op[3])
  /\ Len(res.path) = 3
  /\ \E t \in Range(AllEdges(pre.edges)) : t[1] = op[2] /\ t[2] = op[3]

\* C16: whatever the updater writes meanwhile, a find_hotspots scan reads
\* every item of every adjacency list once, each read item is one the list
\* held at that place during the scan, and the triples it returns are the
\* read items of weight >= threshold.
C16_ScanSeesEachEdgeOnce ==
  (fg.op = "find_hotspots" /\ fg.pc = "done") =>
    LET seen == hist.seen
        hot == SelectSeq(seen, LAMBDA x : x[3][2] >= CONGESTION_THRESHOLD)
    IN  /\ {<<x[1], x[2]>> : x \in Range(seen)} = {<<x[1], x[2]>> : x \in Entries(edges)}
        /\ Len(seen) = Cardinality(Entries(edges))
        /\ Range(seen) \subseteq hist.held
        /\ fg.result = [k \in 1..Len(hot) |-> <<hot[k][1], hot[k][3][1], hot[k][3][2]>>]

\* The scan reports A->C at the weight the updater gave it after the scan
\* began.
C16_Witness ==
  /\ fg.op = "find_hotspots"
  /\ fg.pc = "done"
  /\ <<"A", "C", 7>> \in Range(fg.result)
  /\ <<"A", 2, <<"C", 4>>>> \in hist.held

\* C17: a started dijkstra or a_star returns, a path or the unreachable
\* result, on graphs with cycles, self-loops, zero weights and nodes in no
\* edge, while the updater rewrites weights.
C17_SearchTerminates ==
  (fg.pc \in {"pop", "expand"}) ~> (fg.pc \in {"done", "restore"})

\* a_star has returned the unreachable result on the graph with the
\* self-loop and the cycle, after the updater wrote a weight.
C17_Witness ==
  /\ fg.op = "a_star"
  /\ fg.pc = "done"
  /\ fg.result = NoPath
  /\ hist.g0 = LoopGraph.edges
  /\ hist.applied # {}

\* C18 (as claimed): the updater's loop never ends abnormally, whatever the
\* foreground thread does to the lists meanwhile.
C18_UpdaterNeverDies == up.pc # "dead"

\* C21: in dijkstra and a_star a node is settled the first time it is
\* popped and its edges are scanned at most once: a pop that goes on to scan
\* a node's edges takes a node not visited before and marks it visited, even
\* when the node is in the queue again at another cost.
C21_SettledOnce ==
  [][(fg.pc = "pop" /\ fg'.pc = "expand")
       => (fg'.node \notin fg.visited /\ fg'.node \in fg'.visited)]_vars

\* "B", settled at cost 4 over the second edge from "A", is still in the
\* queue at cost 7.
C21_Witness ==
  /\ fg.op \in {"dijkstra", "a_star"}
  /\ fg.pc = "pop"
  /\ "B" \in fg.visited
  /\ \E i \in 1..Len(fg.queue) : fg.queue[i].node = "B" /\ fg.queue[i].cost = 7

\* C22: dijkstra and a_star leave the node set, the adjacency structure
\* (keys, order, weights) and the positions as they found them, for every
\* start and end, known to the graph or not.
C22_SearchOnlyReads ==
  IsSearch => Graph = pre

\* dijkstra was called from a node that is no key of graph.edges, on a
\* graph with edges, and the node is no key afterwards.
C22_Witness ==
  /\ op[1] = "dijkstra"
  /\ ~DictHas(pre.edges, op[2])
  /\ EdgeCount(pre.edges) > 0
  /\ ~DictHas(edges, op[2])

\* The sums of one edge weight per consecutive pair of path, from place i on.
RECURSIVE PathSums(_, _, _)
PathSums(E, path, i) ==
  IF i >= Len(path) THEN {0}
  ELSE {t[3] + r : t \in {x \in E : x[1] = path[i] /\ x[2] = path[i + 1]},
                   r \in PathSums(E, path, i + 1)}

\* C23: a non-empty path returned by dijkstra or a_star runs from start to
\* end, repeats no node, follows an edge of the graph at every hop, and its
\* cost is the sum of the weights of one such edge per hop.
C23_PathIsWellFormed ==
  (IsSearch /\ res.path # <<>>) =>
    LET E == Range(AllEdges(pre.edges))
    IN  /\ IsPathOver(E, res.path, op[2], op[3])
        /\ \A i, j \in 1..Len(res.path) : i # j => res.path[i] # res.path[j]
        /\ res.cost \in PathSums(E, res.path, 1)

\* a_star has returned a three-node path on a graph where two parallel
\* edges of different weights join two of its nodes.
C23_Witness ==
  /\ op[1] = "a_star"
  /\ Len(res.path) = 3
  /\ \E t, u \in Range(AllEdges(pre.edges)) :
       /\ t[1] = res.path[1] /\ t[2] = res.path[2]
       /\ u[1] = t[1] /\ u[2] = t[2] /\ u[3] # t[3]

\* C24 (as claimed): suggest_alternate_path on a quiescent graph leaves
\* every adjacency list in the order it had before the call.
C24_SuggestKeepsOrder ==
  op[1] = "suggest_alternate_path" => edges = pre.edges
====
